---------------------------- MODULE Spec2Model ----------------------------
(***************************************************************************)
(* Attack-Surface-Monitor (asm_lite): the three-stage asset pipeline      *)
(*   main -> discover_subdomains -> resolve_hosts -> probe_http -> write   *)
(* as a state machine.  A Python str is a sequence of one-character       *)
(* strings, None is the empty option <<>> and a present optional value x   *)
(* is <<x>>.                                                               *)
(***************************************************************************)
EXTENDS Integers, Sequences, FiniteSets

VARIABLES
    pc,         \* position of the pipeline
    frame,      \* the function executing (where an exception was raised)
    exc,        \* the uncaught exception's type, "" when none
    domain,     \* cli.main: domain
    limit,      \* cli.main: args.max_subdomains / discover_subdomains: limit
    data,       \* discover_subdomains: data (the decoded JSON document)
    row_i,      \* discover_subdomains: rows of data consumed by the outer loop
    hosts,      \* discover_subdomains: lines of the current row not yet visited
    subs,       \* discover_subdomains: subs (the deduplicating set)
    caught,     \* discover_subdomains: the exception `except Exception` absorbed
    discovered, \* cli.main: subs (the list discover_subdomains returned)
    results,    \* resolve_hosts: results
    assets,     \* cli.main: assets
    findings,   \* probe_http: findings
    probe_i,    \* probe_http: assets consumed by the loop
    written     \* cli.main: the files written to out_dir

vars == <<pc, frame, exc, domain, limit, data, row_i, hosts, subs, caught,
          discovered, results, assets, findings, probe_i, written>>

---------------------------------------------------------------------------
(* Bounds of the model *)

\* longest certificate-transparency response, in records
MaxRows == 2
\* largest --max-subdomains tried
MaxLimit == 3

---------------------------------------------------------------------------
(* Python str *)

\* The characters the inputs are written in, in ascending code-point order.
CodePoints ==
    << "\n", "\r", " ", "*", "-", ".", "0", ":", "A", "B", "C", "_",
       "a", "b", "c", "z" >>

ord(ch) == CHOOSE i \in DOMAIN CodePoints : CodePoints[i] = ch

\* str.strip() with no argument strips whitespace
Whitespace == {" ", "\n", "\r"}

\* the line boundaries str.splitlines() splits at ("\r\n" counts once)
LineBreaks == {"\n", "\r"}

\* the characters of the class [a-z0-9.-]
HostChars == {"a", "b", "c", "z", "0", "-", "."}

lower_char(ch) ==
    CASE ch = "A" -> "a"
      [] ch = "B" -> "b"
      [] ch = "C" -> "c"
      [] OTHER -> ch

lower(s) == IF s = <<>> THEN <<>> ELSE [i \in 1..Len(s) |-> lower_char(s[i])]

RECURSIVE lstrip(_, _)
lstrip(s, chars) ==
    IF s # <<>> /\ Head(s) \in chars THEN lstrip(Tail(s), chars) ELSE s

RECURSIVE rstrip(_, _)
rstrip(s, chars) ==
    IF s # <<>> /\ s[Len(s)] \in chars
    THEN rstrip(SubSeq(s, 1, Len(s) - 1), chars)
    ELSE s

strip(s) == rstrip(lstrip(s, Whitespace), Whitespace)

contains(s, ch) == \E i \in 1..Len(s) : s[i] = ch

startswith(s, pre) ==
    Len(pre) <= Len(s) /\ SubSeq(s, 1, Len(pre)) = pre

endswith(s, suf) ==
    Len(suf) <= Len(s) /\ SubSeq(s, Len(s) - Len(suf) + 1, Len(s)) = suf

\* str.splitlines(): no empty last line, "\r\n" is one boundary
RECURSIVE splitlines_from(_, _, _, _)
splitlines_from(s, i, cur, acc) ==
    IF i > Len(s) THEN (IF cur = <<>> THEN acc ELSE Append(acc, cur))
    ELSE IF s[i] = "\r" /\ i < Len(s) /\ s[i + 1] = "\n"
         THEN splitlines_from(s, i + 2, <<>>, Append(acc, cur))
    ELSE IF s[i] \in LineBreaks
         THEN splitlines_from(s, i + 1, <<>>, Append(acc, cur))
    ELSE splitlines_from(s, i + 1, Append(cur, s[i]), acc)

splitlines(s) == splitlines_from(s, 1, <<>>, <<>>)

\* str < str: lexicographic by code point, a proper prefix first
str_less(s, t) ==
    \/ Len(s) < Len(t) /\ \A i \in 1..Len(s) : s[i] = t[i]
    \/ \E i \in 1..(IF Len(s) < Len(t) THEN Len(s) ELSE Len(t)) :
          /\ \A j \in 1..(i - 1) : s[j] = t[j]
          /\ ord(s[i]) < ord(t[i])

\* sorted(set of str)
RECURSIVE sorted(_)
sorted(S) ==
    IF S = {} THEN <<>>
    ELSE LET m == CHOOSE x \in S : \A y \in S : x = y \/ str_less(x, y)
         IN  <<m>> \o sorted(S \ {m})

Range(q) == {q[i] : i \in DOMAIN q}

SeqUpTo(S, n) == UNION {[1..k -> S] : k \in 0..n}

None == <<>>
Some(x) == <<x>>

---------------------------------------------------------------------------
(* discover.py *)

\* host.strip().lower().rstrip(".")
normalize(host) == rstrip(lower(strip(host)), {"."})

\* re.fullmatch(r"[a-z0-9.-]+", host) is not None
fullmatch_hostname(host) ==
    host # <<>> /\ \A i \in 1..Len(host) : host[i] \in HostChars

valid_subdomain_suffix_only(raw, dom) ==
    LET host == normalize(raw)
    IN  /\ host # <<>>
        /\ ~contains(host, "*")
        /\ (host = dom \/ endswith(host, dom))
        /\ fullmatch_hostname(host)

_valid_subdomain(raw, dom) ==
    LET host == normalize(raw)
    IN  /\ host # <<>>
        /\ ~contains(host, "*")
        /\ (host = dom \/ endswith(host, <<".">> \o dom))
        /\ fullmatch_hostname(host)


\* sorted(subs) after subs.add(domain)
discover_result_unsorted(S, dom) ==
    LET all == S \cup {dom}
    IN  CHOOSE q \in [1..Cardinality(all) -> all] : Range(q) = all

discover_result(S, dom) == sorted(S \cup {dom})

\* JSON values of a record's name_value field, as json.loads returns them
JStr(s) == [t |-> "str", s |-> s, n |-> 0]
JInt(n) == [t |-> "int", s |-> <<>>, n |-> n]
JNone == [t |-> "NoneType", s |-> <<>>, n |-> 0]

\* bool(v), as `or` tests it
truthy(v) ==
    CASE v.t = "str" -> v.s # <<>>
      [] v.t = "int" -> v.n # 0
      [] OTHER -> FALSE

\* row.get("name_value") or ""
name_value_or_empty(row) ==
    IF truthy(row.name_value) THEN row.name_value ELSE JStr(<<>>)

\* (row.get("name_value") or "").strip() is evaluated without an exception
row_ok(row) == row.t = "dict" /\ name_value_or_empty(row).t = "str"

\* name_val.splitlines(), name_val the stripped name_value
row_lines(row) == splitlines(strip(name_value_or_empty(row).s))

\* the hostname bundles the certificate-transparency source is given to return
NameValues ==
    { <<"*", ".", "b", ".", "c", "\n", "a", ".", "b", ".", "c", "\n",
        "B", ".", "C", ".">>,
      <<"a", ".", "b", ".", "c">>,
      <<"z", ".", "b", ".", "c", "\r", "\n", "0", ".", "b", ".", "c">>,
      <<" ", "z", ".", "b", ".", "c">>,
      <<"0", ".", "b", ".", "c", ".", ".">>,
      <<"a", "b", ".", "c", "\n", "z", ".", "c">>,
      <<"a", ".", ".", "b", ".", "c">>,
      <<"_", ".", "b", ".", "c">>,
      <<>> }

DictRow(v) == [t |-> "dict", name_value |-> v]
\* an element of the array that is a JSON string, not an object
StrRow == [t |-> "str", name_value |-> JNone]

Rows ==
    {DictRow(JStr(nv)) : nv \in NameValues}
        \cup {DictRow(JNone), DictRow(JInt(7)), StrRow}

\* json.loads(...): an array of records, null, or an object (iterating a
\* dict yields its keys, which are str)
Documents ==
    {[t |-> "list", items |-> rows] : rows \in SeqUpTo(Rows, MaxRows)}
        \cup {[t |-> "NoneType", items |-> <<>>],
              [t |-> "dict", items |-> <<>>],
              [t |-> "dict", items |-> <<StrRow>>]}

EmptyList == [t |-> "list", items |-> <<>>]

\* what urlopen / read / decode / json.loads does: an exception or a document
FetchOutcomes ==
    {[raised |-> e, doc |-> EmptyList] : e \in {"URLError", "JSONDecodeError"}}
        \cup {[raised |-> "", doc |-> d] : d \in Documents}

\* the --domain arguments tried
DomainArgs ==
    { <<"b", ".", "c">>,
      <<" ", "B", ".", "C">>,
      <<"b", "_", ".", "c">>,
      <<"*", ".", "b", ".", "c">>,
      <<"b", "c">>,
      <<".", "b", ".", "c">>,
      <<"b", ".", "c", ".">> }

Limits == 1..MaxLimit

---------------------------------------------------------------------------
(* resolve.py *)

\* the idna codec, which socket.getaddrinfo encodes a str host with, refuses
\* an empty label (a single trailing dot is allowed)
has_empty_label(host) ==
    \/ startswith(host, <<".">>)
    \/ \E i \in 1..(Len(host) - 1) : host[i] = "." /\ host[i + 1] = "."

\* info[4][0] of each entry getaddrinfo returns for a name that resolves:
\* one entry per socket type, both families
Infos ==
    << <<":", ":", "0">>, <<"0", ".", "0", ".", "0", ".", "0">>,
       <<"0", ".", "0", ".", "0", ".", "0">> >>

\* socket.getaddrinfo(host, None): the entries, or the exception raised
\* (gaierror: the name does not resolve; OSError: EAI_SYSTEM;
\* UnicodeError: the host cannot be encoded)
GetaddrinfoOutcomes(host) ==
    IF has_empty_label(host)
    THEN {[raised |-> "UnicodeError", infos |-> <<>>]}
    ELSE {[raised |-> "", infos |-> Infos],
          [raised |-> "gaierror", infos |-> <<>>],
          [raised |-> "OSError", infos |-> <<>>]}

\* the exceptions `except socket.gaierror` catches
resolve_catches(e) == e = "gaierror"

\* {"host": host, "ips": sorted(ips)}
Asset(host, ips) == [host |-> host, ips |-> sorted(ips)]

---------------------------------------------------------------------------
(* probe.py *)

HttpsScheme == <<"h", "t", "t", "p", "s", ":", "/", "/">>
HttpScheme == <<"h", "t", "t", "p", ":", "/", "/">>

https_finding(host) ==
    [url |-> HttpsScheme \o host,
     final_url |-> HttpsScheme \o host \o <<"/">>,
     status_code |-> Some(200),
     title |-> Some("Example Domain"),
     server |-> Some("nginx"),
     tls_not_after |-> Some("Jan  1 00:00:00 2030 GMT"),
     error |-> None]

http_finding(host) ==
    [url |-> HttpScheme \o host,
     final_url |-> HttpsScheme \o host \o <<"/">>,
     status_code |-> Some(301),
     title |-> None,
     server |-> Some("nginx"),
     tls_not_after |-> None,
     error |-> None]

probe_https_only(asset) == <<https_finding(asset.host)>>

\* the findings one iteration of the loop appends for an asset
probe(asset) == <<https_finding(asset.host), http_finding(asset.host)>>

---------------------------------------------------------------------------
(* State machine *)

Init ==
    /\ pc = "main"
    /\ frame = "main"
    /\ exc = ""
    /\ domain = <<>>
    /\ limit = 0
    /\ data = EmptyList
    /\ row_i = 0
    /\ hosts = <<>>
    /\ subs = {}
    /\ caught = ""
    /\ discovered = <<>>
    /\ results = <<>>
    /\ assets = <<>>
    /\ findings = <<>>
    /\ probe_i = 0
    /\ written = {}

\* cli.main up to the call of discover_subdomains: the arguments are parsed,
\* --domain is normalised and validated
Main ==
    /\ pc = "main"
    /\ \E arg \in DomainArgs, lim \in Limits :
          LET d == lower(strip(arg))
          IN  IF ~contains(d, ".") \/ startswith(d, <<".">>) \/ endswith(d, <<".">>)
              THEN /\ pc' = "exit"
                   /\ exc' = "SystemExit"
                   /\ UNCHANGED <<frame, domain, limit>>
              ELSE /\ pc' = "fetch"
                   /\ frame' = "discover_subdomains"
                   /\ domain' = d
                   /\ limit' = lim
                   /\ exc' = exc
    /\ UNCHANGED <<data, row_i, hosts, subs, caught, discovered, results,
                   assets, findings, probe_i, written>>

\* discover_subdomains: subs = set(); try: data = json.loads(...) with
\* `except Exception: data = []`
Fetch ==
    /\ pc = "fetch"
    /\ \E o \in FetchOutcomes :
          /\ data' = o.doc
          /\ caught' = o.raised
    /\ subs' = {}
    /\ row_i' = 0
    /\ hosts' = <<>>
    /\ pc' = "rows"
    /\ UNCHANGED <<frame, exc, domain, limit, discovered, results, assets,
                   findings, probe_i, written>>

\* `for row in data:` finds data not iterable
IterNone ==
    /\ pc = "rows"
    /\ data.t = "NoneType"
    /\ pc' = "raised"
    /\ exc' = "TypeError"
    /\ UNCHANGED <<frame, domain, limit, data, row_i, hosts, subs, caught,
                   discovered, results, assets, findings, probe_i, written>>

\* `for row in data:` takes the next row; name_val = (...).strip(), then
\* name_val.splitlines()
NextRow ==
    /\ pc = "rows"
    /\ data.t # "NoneType"
    /\ row_i < Len(data.items)
    /\ LET row == data.items[row_i + 1]
       IN  IF row_ok(row)
           THEN /\ hosts' = row_lines(row)
                /\ row_i' = row_i + 1
                /\ pc' = "hosts"
                /\ exc' = exc
           ELSE /\ pc' = "raised"
                /\ exc' = "AttributeError"
                /\ UNCHANGED <<hosts, row_i>>
    /\ UNCHANGED <<frame, domain, limit, data, subs, caught, discovered,
                   results, assets, findings, probe_i, written>>

\* one iteration of `for host in name_val.splitlines():`; at the cap both
\* loops are left (the inner break, then the outer test of the same subs)
NextHost ==
    /\ pc = "hosts"
    /\ hosts # <<>>
    /\ LET host == Head(hosts)
           s2 == IF _valid_subdomain(host, domain)
                 THEN subs \cup {normalize(host)}
                 ELSE subs
       IN  /\ subs' = s2
           /\ IF Cardinality(s2) >= limit
              THEN pc' = "finish" /\ hosts' = hosts
              ELSE pc' = "hosts" /\ hosts' = Tail(hosts)
    /\ UNCHANGED <<frame, exc, domain, limit, data, row_i, caught,
                   discovered, results, assets, findings, probe_i, written>>

\* the inner loop is exhausted: `if len(subs) >= limit: break`
RowEnd ==
    /\ pc = "hosts"
    /\ hosts = <<>>
    /\ pc' = IF Cardinality(subs) >= limit THEN "finish" ELSE "rows"
    /\ UNCHANGED <<frame, exc, domain, limit, data, row_i, hosts, subs,
                   caught, discovered, results, assets, findings, probe_i,
                   written>>

\* the outer loop is exhausted
RowsEnd ==
    /\ pc = "rows"
    /\ data.t # "NoneType"
    /\ row_i = Len(data.items)
    /\ pc' = "finish"
    /\ UNCHANGED <<frame, exc, domain, limit, data, row_i, hosts, subs,
                   caught, discovered, results, assets, findings, probe_i,
                   written>>

\* subs.add(domain); return sorted(subs)
DiscoverReturn ==
    /\ pc = "finish"
    /\ subs' = subs \cup {domain}
    /\ discovered' = discover_result(subs, domain)
    /\ pc' = "discovered"
    /\ frame' = "main"
    /\ UNCHANGED <<exc, domain, limit, data, row_i, hosts, caught, results,
                   assets, findings, probe_i, written>>

\* cli.main: assets = resolve_hosts(subs); discover_subdomains' locals are
\* gone, resolve_hosts starts with results = []
ResolveCall ==
    /\ pc = "discovered"
    /\ pc' = "resolve"
    /\ frame' = "resolve_hosts"
    /\ data' = EmptyList
    /\ row_i' = 0
    /\ hosts' = <<>>
    /\ subs' = {}
    /\ caught' = ""
    /\ results' = <<>>
    /\ UNCHANGED <<exc, domain, limit, discovered, assets, findings, probe_i,
                   written>>

\* one iteration of `for host in hostnames:`
ResolveHost ==
    /\ pc = "resolve"
    /\ Len(results) < Len(discovered)
    /\ LET host == discovered[Len(results) + 1]
       IN  \E o \in GetaddrinfoOutcomes(host) :
              IF o.raised = "" \/ resolve_catches(o.raised)
              THEN /\ results' = Append(results, Asset(host, Range(o.infos)))
                   /\ UNCHANGED <<pc, exc>>
              ELSE /\ pc' = "raised"
                   /\ exc' = o.raised
                   /\ UNCHANGED results
    /\ UNCHANGED <<frame, domain, limit, data, row_i, hosts, subs, caught,
                   discovered, assets, findings, probe_i, written>>

\* return results; cli.main: http_findings = probe_http(assets, timeout),
\* which starts with findings = [] and never reads timeout
ResolveReturn ==
    /\ pc = "resolve"
    /\ Len(results) = Len(discovered)
    /\ assets' = results
    /\ results' = <<>>
    /\ findings' = <<>>
    /\ probe_i' = 0
    /\ pc' = "probe"
    /\ frame' = "probe_http"
    /\ UNCHANGED <<exc, domain, limit, data, row_i, hosts, subs, caught,
                   discovered, written>>

\* one iteration of `for asset in assets:`
ProbeAsset ==
    /\ pc = "probe"
    /\ probe_i < Len(assets)
    /\ findings' = findings \o probe(assets[probe_i + 1])
    /\ probe_i' = probe_i + 1
    /\ UNCHANGED <<pc, frame, exc, domain, limit, data, row_i, hosts, subs,
                   caught, discovered, results, assets, written>>

\* return findings
ProbeReturn ==
    /\ pc = "probe"
    /\ probe_i = Len(assets)
    /\ pc' = "write"
    /\ frame' = "main"
    /\ UNCHANGED <<exc, domain, limit, data, row_i, hosts, subs, caught,
                   discovered, results, assets, findings, probe_i, written>>

\* cli.main: meta.json, assets.json and http.json are written; return 0
WriteOutputs ==
    /\ pc = "write"
    /\ written' = {"meta.json", "assets.json", "http.json"}
    /\ pc' = "done"
    /\ UNCHANGED <<frame, exc, domain, limit, data, row_i, hosts, subs,
                   caught, discovered, results, assets, findings, probe_i>>

Next ==
    \/ Main
    \/ Fetch
    \/ IterNone
    \/ NextRow
    \/ NextHost
    \/ RowEnd
    \/ RowsEnd
    \/ DiscoverReturn
    \/ ResolveCall
    \/ ResolveHost
    \/ ResolveReturn
    \/ ProbeAsset
    \/ ProbeReturn
    \/ WriteOutputs

Spec == Init /\ [][Next]_vars

---------------------------------------------------------------------------
(* Properties *)

RootDomain == <<"b", ".", "c">>

\* discover_subdomains has ended: it returned to main, or an exception left it
DiscoverEnded ==
    \/ pc = "discovered"
    \/ pc = "raised" /\ frame = "discover_subdomains"

\* resolve_hosts has ended: it returned to main, or an exception left it
ResolveEnded ==
    \/ pc \in {"probe", "write", "done"}
    \/ pc = "raised" /\ frame = "resolve_hosts"

\* q is ascending and free of duplicates
Ascending(q) == \A i, j \in DOMAIN q : i < j => str_less(q[i], q[j])

\* the rows of the response that are records with a string name_value
StringRows ==
    {data.items[i] : i \in {k \in DOMAIN data.items :
        data.items[k].t = "dict" /\ data.items[k].name_value.t = "str"}}

\* C1: the list discover_subdomains(D, L) returns has at most L elements,
\* and for L = 1 it is exactly [D].
C1_AtMostLimit ==
    pc = "discovered" =>
        /\ Len(discovered) <= limit
        /\ (limit = 1 => discovered = <<domain>>)

\* C2: no failure of the certificate-transparency source leaves
\* discover_subdomains as an exception: a network error, a body that does
\* not parse, or a response that is not an array of records with a string
\* name_value all end in a returned list that contains D, and that list is
\* exactly [D] when the fetch failed.
C2_SourceFailureAbsorbed ==
    /\ ~(pc = "raised" /\ frame = "discover_subdomains")
    /\ (pc = "discovered" => domain \in Range(discovered))
    /\ (pc = "discovered" /\ caught # "" => discovered = <<domain>>)

\* C3: no lookup failure leaves resolve_hosts as an exception; the hostname
\* whose lookup failed gets an Asset with no ips and the hostnames after it
\* are still looked up.
C3_LookupFailureAbsorbed ==
    /\ ~(pc = "raised" /\ frame = "resolve_hosts")
    /\ (pc \in {"probe", "write", "done"} => Len(assets) = Len(discovered))

\* C4: whatever the certificate-transparency source did (records, no
\* records, a failure), once discover_subdomains(D, L) has ended D is an
\* element of its result.
C4_RootInResult ==
    DiscoverEnded => pc = "discovered" /\ domain \in Range(discovered)

C6_LengthOrderPreserving ==
    ResolveEnded =>
        /\ pc # "raised"
        /\ Len(assets) = Len(discovered)
        /\ \A i \in DOMAIN assets : assets[i].host = discovered[i]

\* C7: probe_http returns 2 * len(assets) findings; the asset at index i
\* has exactly one finding with url "https://<host>" and exactly one with
\* url "http://<host>", whether or not its ips list is empty.
C7_TwoFindingsPerAsset ==
    pc \in {"write", "done"} =>
        /\ Len(findings) = 2 * Len(assets)
        /\ \A i \in DOMAIN assets :
              /\ findings[2 * i - 1].url = HttpsScheme \o assets[i].host
              /\ findings[2 * i].url = HttpScheme \o assets[i].host
              /\ Cardinality({j \in DOMAIN findings :
                    findings[j].url = HttpsScheme \o assets[i].host}) = 1
              /\ Cardinality({j \in DOMAIN findings :
                    findings[j].url = HttpScheme \o assets[i].host}) = 1

\* probe_http returned for several assets, one resolved and one not
C7_Witness ==
    /\ pc = "write"
    /\ Len(assets) >= 2
    /\ \E i, j \in DOMAIN assets : assets[i].ips = <<>> /\ assets[j].ips # <<>>

\* the entries of a name_value field as the claim flattens it: split at
\* "\n" alone
RECURSIVE claimed_lines_from(_, _, _)
claimed_lines_from(s, i, cur) ==
    IF i > Len(s) THEN {cur}
    ELSE IF s[i] = "\n" THEN {cur} \cup claimed_lines_from(s, i + 1, <<>>)
    ELSE claimed_lines_from(s, i + 1, Append(cur, s[i]))

\* an entry as the claim normalises it: lowercased, one trailing separator
\* stripped
claimed_normalize(e) ==
    LET l == lower(e)
    IN  IF endswith(l, <<".">>) THEN SubSeq(l, 1, Len(l) - 1) ELSE l

\* the hostnames the claim accepts
ClaimedHosts ==
    LET entries == UNION {claimed_lines_from(r.name_value.s, 1, <<>>) :
                          r \in StringRows}
        names == {claimed_normalize(e) : e \in entries}
    IN  {h \in names :
            /\ h # <<>>
            /\ ~contains(h, "*")
            /\ (h = domain \/ endswith(h, <<".">> \o domain))
            /\ \A i \in DOMAIN h : h[i] \in HostChars}

\* the hostnames accepted when an entry is a line of the name_value field
\* (split at every line boundary) with surrounding whitespace trimmed,
\* lowercased, and every trailing separator stripped
AcceptedHosts ==
    LET entries == UNION {Range(splitlines(strip(r.name_value.s))) :
                          r \in StringRows}
        names == {rstrip(lower(strip(e)), {"."}) : e \in entries}
    IN  {h \in names :
            /\ h # <<>>
            /\ ~contains(h, "*")
            /\ (h = domain \/ endswith(h, <<".">> \o domain))
            /\ \A i \in DOMAIN h : h[i] \in HostChars}

\* both loops ran to their end: no break at the cap
LoopsExhausted == row_i = Len(data.items) /\ hosts = <<>>

\* C8 as claimed: when no cap is hit (fewer than L hostnames are accepted,
\* and the loops were not left at the cap), the result is the ascending
\* duplicate-free sequence of {D} and the accepted hostnames, an entry being
\* a "\n"-delimited piece of a name_value field, lowercased, with its
\* trailing separator stripped.
C8_AsClaimed ==
    pc = "discovered" /\ LoopsExhausted /\ Cardinality(ClaimedHosts) < limit =>
        /\ Range(discovered) = ClaimedHosts \cup {domain}
        /\ Ascending(discovered)

\* C8 amended: the same, an entry being a line of a name_value field with
\* surrounding whitespace trimmed, lowercased, every trailing separator
\* stripped.
C8_NoCapResult ==
    pc = "discovered" /\ Cardinality(AcceptedHosts) < limit =>
        /\ Range(discovered) = AcceptedHosts \cup {domain}
        /\ Ascending(discovered)

\* the spec's scenario: one record "*.b.c\na.b.c\nB.C." for D = "b.c" under
\* a cap that is not hit gives ["a.b.c", "b.c"]
C8_Witness ==
    /\ pc = "discovered"
    /\ domain = RootDomain
    /\ limit = MaxLimit
    /\ data.items =
          <<DictRow(JStr(<<"*", ".", "b", ".", "c", "\n", "a", ".", "b", ".",
                           "c", "\n", "B", ".", "C", ".">>))>>
    /\ discovered = << <<"a", ".", "b", ".", "c">>, RootDomain >>

\* C9: the finding of a check that failed (here: a check of an asset with
\* no resolved address) has error set and status_code, title, server and
\* tls_not_after all None.
C9_FailedCheckIsErrorRecord ==
    \A i \in DOMAIN assets : \A j \in {2 * i - 1, 2 * i} :
        j \in DOMAIN findings /\ assets[i].ips = <<>> =>
            /\ findings[j].error # None
            /\ findings[j].status_code = None
            /\ findings[j].title = None
            /\ findings[j].server = None
            /\ findings[j].tls_not_after = None

\* C10: every element of the discovery result, the root domain included, is
\* lowercase, has no trailing separator and is made of hostname-safe
\* characters only.
C10_ElementsNormalized ==
    \A i \in DOMAIN discovered :
        /\ lower(discovered[i]) = discovered[i]
        /\ ~endswith(discovered[i], <<".">>)
        /\ \A k \in DOMAIN discovered[i] : discovered[i][k] \in HostChars

=============================================================================
